---- MODULE Spec2Model ----
(***************************************************************************)
(* Merkle tree of github.com/estensen/merkle (merkle.go, package merkle,   *)
(* the version with preHashLeaves and GenerateProofByIndex).               *)
(*                                                                         *)
(* Byte strings are sequences of blocks.  A block is a record              *)
(* [b, h]: a raw byte has b >= 0 and h = <<>>; the output of the digest    *)
(* provider for the byte string s is the one block [b |-> -1, h |-> s],    *)
(* so the digest is a free (collision-free) constructor, a digest has a    *)
(* fixed non-zero length, and the nil/empty slice is <<>>.                 *)
(* Pointers are node ids: positions in the node store, 0 is nil.           *)
(* Leaf indexes are Go's: 0-based.                                         *)
(***************************************************************************)
EXTENDS Integers, Sequences, FiniteSets, TLC

VARIABLES
    pc,               \* "uninit" | "hashing" | "ready" | "failed" | "panic"
    values,           \* NewTree's argument
    numCPU,           \* runtime.NumCPU() as seen by preHashLeaves
    group,            \* errgroup: the goroutines started so far, in order
    preHashedLeaves,  \* preHashLeaves' output slice
    nodes,            \* the heap of Node objects, id -> fields
    Root,             \* Tree.Root (node id, 0 = nil)
    Leaves,           \* Tree.Leaves (sequence of node ids)
    HashFunc,         \* Tree.HashFunc: the bytes written to the accumulator
    fresh,            \* no successful UpdateLeaf/RemoveLeaf since NewTree
    prev,             \* what the previous NewTree run returned (for reruns)
    ret               \* the last call and what it returned

vars == <<pc, values, numCPU, group, preHashedLeaves, nodes, Root, Leaves,
          HashFunc, fresh, prev, ret>>

treeVars == <<nodes, Root, Leaves, HashFunc>>
buildVars == <<values, numCPU, group, preHashedLeaves>>

(* ------------------------------ bounds -------------------------------- *)
MaxLeaves == 3        \* items per NewTree call where the tree is mutated later
MaxBuildLeaves == 5   \* items per NewTree call where only the build is followed
MaxCPU == 3           \* runtime.NumCPU() ranges over 1..MaxCPU

(* --------------------------- byte strings ----------------------------- *)
Byte(n) == [b |-> n, h |-> <<>>]

\* the items a caller may pass: the empty item and a one-byte item
Values == { <<>>, <<Byte(1)>> }

RECURSIVE SeqsUpTo(_, _)
SeqsUpTo(S, n) ==
    IF n = 0 THEN { <<>> }
    ELSE LET shorter == SeqsUpTo(S, n - 1)
         IN  shorter \cup { Append(s, x) : s \in shorter, x \in S }

Min(a, b) == IF a < b THEN a ELSE b

(* ----------------------- hash.Hash accumulator ------------------------ *)
Reset(h) == <<>>
Write(h, p) == h \o p
Sum(h) == << [b |-> -1, h |-> h] >>
newHashFunc == <<>>

(* ------------------------------- errors ------------------------------- *)
NoErr == "nil"
ErrNoLeaves == "cannot create a tree with no leaves"
ErrNoVal == "value not found in the tree"
ErrIndexOutOfBounds == "index out of bounds"
ErrProofVerificationFailed == "proof verification failed"
Panic == "panic"

(* -------------------------------- Node -------------------------------- *)
NewNode(hash, val) ==
    [Left |-> 0, Right |-> 0, Parent |-> 0, Hash |-> hash, Value |-> val]

NoProof == [Hashes |-> <<>>, Index |-> -1]

Tree == [nodes |-> nodes, Root |-> Root, Leaves |-> Leaves, HashFunc |-> HashFunc]

NoTree == [nodes |-> <<>>, Root |-> 0, Leaves |-> <<>>, HashFunc |-> <<>>]

(* ------------------------------ buildTree ----------------------------- *)
\* (mutant) the pair hashed right before left
PairNodesSwapped(st, left, right) ==
    LET hf == Write(Write(Reset(st.HashFunc), st.nodes[right].Hash),
                    st.nodes[left].Hash)
        id == Len(st.nodes) + 1
        parentNode == [Left |-> left, Right |-> right, Parent |-> 0,
                       Hash |-> Sum(hf), Value |-> <<>>]
        linked == [st.nodes EXCEPT ![left].Parent = id, ![right].Parent = id]
    IN  [nodes |-> Append(linked, parentNode), HashFunc |-> hf, id |-> id]

\* (mutant) the right node of the pair gets no parent reference
PairNodesNoRightLink(st, left, right) ==
    LET hf == Write(Write(Reset(st.HashFunc), st.nodes[left].Hash),
                    st.nodes[right].Hash)
        id == Len(st.nodes) + 1
        parentNode == [Left |-> left, Right |-> right, Parent |-> 0,
                       Hash |-> Sum(hf), Value |-> <<>>]
        linked == [st.nodes EXCEPT ![left].Parent = id]
    IN  [nodes |-> Append(linked, parentNode), HashFunc |-> hf, id |-> id]

\* one pair of the inner loop: hash left and right, allocate the parent
PairNodes(st, left, right) ==
    LET hf == Write(Write(Reset(st.HashFunc), st.nodes[left].Hash),
                    st.nodes[right].Hash)
        id == Len(st.nodes) + 1
        parentNode == [Left |-> left, Right |-> right, Parent |-> 0,
                       Hash |-> Sum(hf), Value |-> <<>>]
        linked == [st.nodes EXCEPT ![left].Parent = id, ![right].Parent = id]
    IN  [nodes |-> Append(linked, parentNode), HashFunc |-> hf, id |-> id]

\* the inner for loop over one level; i is the Go index
RECURSIVE BuildLevel(_, _, _, _)
BuildLevel(st, level, i, parents) ==
    IF i >= Len(level) THEN [st |-> st, parents |-> parents]
    ELSE IF i + 1 < Len(level)
         THEN LET p == PairNodes(st, level[i + 1], level[i + 2])
              IN  BuildLevel([nodes |-> p.nodes, HashFunc |-> p.HashFunc],
                             level, i + 2, Append(parents, p.id))
         ELSE \* carry the left node up without hashing
              BuildLevel(st, level, i + 2, Append(parents, level[i + 1]))

\* st = [nodes, HashFunc]; level = the node ids of the current level
RECURSIVE buildTree(_, _)
buildTree(st, level) ==
    IF Len(level) = 0 THEN [nodes |-> st.nodes, HashFunc |-> st.HashFunc, root |-> 0]
    ELSE IF Len(level) > 1
         THEN LET r == BuildLevel(st, level, 0, <<>>)
              IN  buildTree(r.st, r.parents)
         ELSE [nodes |-> st.nodes, HashFunc |-> st.HashFunc, root |-> level[1]]

(* ------------------------------ UpdateLeaf ---------------------------- *)
\* (mutant) only the parent of the leaf is hashed again, not the nodes above
updateParentHashesOneLevel(t, current) ==
    IF t.nodes[current].Parent = 0 THEN t
    ELSE LET parent == t.nodes[current].Parent
             h0 == Reset(t.HashFunc)
             h1 == IF t.nodes[parent].Left # 0
                   THEN Write(h0, t.nodes[t.nodes[parent].Left].Hash) ELSE h0
             h2 == IF t.nodes[parent].Right # 0
                   THEN Write(h1, t.nodes[t.nodes[parent].Right].Hash) ELSE h1
         IN  [t EXCEPT !.HashFunc = h2, !.nodes[parent].Hash = Sum(h2)]

\* the loop of updateParentHashes, t = [nodes, Root, Leaves, HashFunc]
RECURSIVE updateParentHashes(_, _)
updateParentHashes(t, current) ==
    IF t.nodes[current].Parent = 0 THEN t
    ELSE LET parent == t.nodes[current].Parent
             h0 == Reset(t.HashFunc)
             h1 == IF t.nodes[parent].Left # 0
                   THEN Write(h0, t.nodes[t.nodes[parent].Left].Hash) ELSE h0
             h2 == IF t.nodes[parent].Right # 0
                   THEN Write(h1, t.nodes[t.nodes[parent].Right].Hash) ELSE h1
         IN  updateParentHashes(
                 [t EXCEPT !.HashFunc = h2, !.nodes[parent].Hash = Sum(h2)], parent)

\* the index check shared by UpdateLeaf, RemoveLeaf and GenerateProofByIndex
IndexOutOfBounds(t, index) == index < 0 \/ index >= Len(t.Leaves)

\* (mutant) an index past the end is taken to mean the last leaf
UpdateLeafClamped(t, index, newVal) ==
    IF index < 0 \/ Len(t.Leaves) = 0 THEN [t |-> t, err |-> ErrIndexOutOfBounds]
    ELSE LET leaf == t.Leaves[Min(index, Len(t.Leaves) - 1) + 1]
             hf == Write(Reset(t.HashFunc), newVal)
             t1 == [t EXCEPT !.HashFunc = hf, !.nodes[leaf].Hash = Sum(hf),
                             !.nodes[leaf].Value = newVal]
         IN  [t |-> updateParentHashes(t1, leaf), err |-> NoErr]

\* (mutant) the leaf gets the new digest but keeps its old value
UpdateLeafStaleValue(t, index, newVal) ==
    IF IndexOutOfBounds(t, index) THEN [t |-> t, err |-> ErrIndexOutOfBounds]
    ELSE LET leaf == t.Leaves[index + 1]
             hf == Write(Reset(t.HashFunc), newVal)
             t1 == [t EXCEPT !.HashFunc = hf, !.nodes[leaf].Hash = Sum(hf)]
         IN  [t |-> updateParentHashes(t1, leaf), err |-> NoErr]

UpdateLeaf(t, index, newVal) ==
    IF IndexOutOfBounds(t, index) THEN [t |-> t, err |-> ErrIndexOutOfBounds]
    ELSE LET leaf == t.Leaves[index + 1]
             hf == Write(Reset(t.HashFunc), newVal)
             t1 == [t EXCEPT !.HashFunc = hf, !.nodes[leaf].Hash = Sum(hf),
                             !.nodes[leaf].Value = newVal]
         IN  [t |-> updateParentHashes(t1, leaf), err |-> NoErr]

(* ------------------------------ RemoveLeaf ---------------------------- *)
\* (mutant) the last element is dropped, whatever i
DeleteLast(s, i) == SubSeq(s, 1, Len(s) - 1)

\* slices.Delete(s, i, i+1), i the Go index
Delete(s, i) == [k \in 1..(Len(s) - 1) |-> IF k <= i THEN s[k] ELSE s[k + 1]]

RECURSIVE updateParentHashesAfterRemoval(_, _)
updateParentHashesAfterRemoval(t, current) ==
    IF current = 0 THEN t
    ELSE LET h0 == Reset(t.HashFunc)
             h1 == IF t.nodes[current].Left # 0
                   THEN Write(h0, t.nodes[t.nodes[current].Left].Hash)
                   ELSE IF t.nodes[current].Right # 0
                        THEN Write(h0, t.nodes[t.nodes[current].Right].Hash)
                        ELSE h0
         IN  updateParentHashesAfterRemoval(
                 [t EXCEPT !.HashFunc = h1, !.nodes[current].Hash = Sum(h1)],
                 t.nodes[current].Parent)

RemoveLeaf(t, index) ==
    IF IndexOutOfBounds(t, index) THEN [t |-> t, err |-> ErrIndexOutOfBounds]
    ELSE LET leafToRemove == t.Leaves[index + 1]
             t1 == [t EXCEPT !.Leaves = Delete(t.Leaves, index)]
             parent == t.nodes[leafToRemove].Parent
         IN  IF Len(t1.Leaves) = 0 /\ parent = 0
             THEN [t |-> [t1 EXCEPT !.Root = 0], err |-> NoErr]
             ELSE IF parent = 0
             THEN \* parent.Left on a nil parent
                  [t |-> t1, err |-> Panic]
             ELSE LET t2 == IF t1.nodes[parent].Left = leafToRemove
                            THEN [t1 EXCEPT !.nodes[parent].Left = 0]
                            ELSE IF t1.nodes[parent].Right = leafToRemove
                                 THEN [t1 EXCEPT !.nodes[parent].Right = 0]
                                 ELSE t1
                  IN  [t |-> updateParentHashesAfterRemoval(t2, parent), err |-> NoErr]

(* --------------------------- GenerateProof ---------------------------- *)
\* the climb of GenerateProofByIndex: one sibling hash (maybe nil) per parent
RECURSIVE CollectSiblings(_, _, _)
CollectSiblings(t, current, hashes) ==
    IF t.nodes[current].Parent = 0 THEN hashes
    ELSE LET parent == t.nodes[current].Parent
             siblingHash ==
                 IF t.nodes[parent].Left = current
                 THEN IF t.nodes[parent].Right # 0
                      THEN t.nodes[t.nodes[parent].Right].Hash ELSE <<>>
                 ELSE IF t.nodes[parent].Left # 0
                      THEN t.nodes[t.nodes[parent].Left].Hash ELSE <<>>
         IN  CollectSiblings(t, parent, Append(hashes, siblingHash))

GenerateProofByIndex(t, index) ==
    IF IndexOutOfBounds(t, index) THEN [proof |-> NoProof, err |-> ErrIndexOutOfBounds]
    ELSE [proof |-> [Hashes |-> CollectSiblings(t, t.Leaves[index + 1], <<>>),
                     Index |-> index],
          err |-> NoErr]

\* (mutant) the search compares the leaf's digest, not its value
RECURSIVE FindLeafByHash(_, _, _)
FindLeafByHash(t, value, i) ==
    IF i >= Len(t.Leaves) THEN -1
    ELSE IF t.nodes[t.Leaves[i + 1]].Hash = value THEN i
    ELSE FindLeafByHash(t, value, i + 1)

\* (mutant) the search does not stop at the first match
RECURSIVE FindLeafLast(_, _, _)
FindLeafLast(t, value, i) ==
    IF i >= Len(t.Leaves) THEN -1
    ELSE LET later == FindLeafLast(t, value, i + 1)
         IN  IF later # -1 THEN later
             ELSE IF t.nodes[t.Leaves[i + 1]].Value = value THEN i ELSE -1

\* the search loop of GenerateProof from Go index i on: the index found, or -1
RECURSIVE FindLeaf(_, _, _)
FindLeaf(t, value, i) ==
    IF i >= Len(t.Leaves) THEN -1
    ELSE IF t.nodes[t.Leaves[i + 1]].Value = value THEN i
    ELSE FindLeaf(t, value, i + 1)

GenerateProof(t, value) ==
    LET leafIndex == FindLeaf(t, value, 0)
    IN  IF leafIndex = -1 THEN [proof |-> NoProof, err |-> ErrNoVal]
        ELSE GenerateProofByIndex(t, leafIndex)

(* ---------------------------- VerifyProof ----------------------------- *)
\* (mutant) the accumulator is not reset at the start
combineHashesNoReset(leftHash, rightHash, hashFunc) ==
    IF Len(leftHash) = 0 THEN [hash |-> rightHash, HashFunc |-> hashFunc]
    ELSE IF Len(rightHash) = 0 THEN [hash |-> leftHash, HashFunc |-> hashFunc]
    ELSE LET h2 == Write(Write(hashFunc, leftHash), rightHash)
         IN  [hash |-> Sum(h2), HashFunc |-> h2]

\* combineHashes(leftHash, rightHash, hashFunc): the result and the accumulator
combineHashes(leftHash, rightHash, hashFunc) ==
    LET h0 == Reset(hashFunc)
    IN  IF Len(leftHash) = 0 THEN [hash |-> rightHash, HashFunc |-> h0]
        ELSE IF Len(rightHash) = 0 THEN [hash |-> leftHash, HashFunc |-> h0]
        ELSE LET h2 == Write(Write(h0, leftHash), rightHash)
             IN  [hash |-> Sum(h2), HashFunc |-> h2]

\* Go's integer division by two (truncates toward zero)
Halve(index) == IF index >= 0 THEN index \div 2 ELSE -((-index) \div 2)

\* (mutant) the index is not halved between the levels
RECURSIVE ReplayNoHalve(_, _, _, _, _)
ReplayNoHalve(hashes, k, index, currentHash, hashFunc) ==
    IF k > Len(hashes) THEN [hash |-> currentHash, HashFunc |-> hashFunc]
    ELSE LET c == IF index % 2 = 0
                  THEN combineHashes(currentHash, hashes[k], hashFunc)
                  ELSE combineHashes(hashes[k], currentHash, hashFunc)
         IN  ReplayNoHalve(hashes, k + 1, index, c.hash, c.HashFunc)

\* the loop over proof.Hashes from position k (1-based) on
RECURSIVE Replay(_, _, _, _, _)
Replay(hashes, k, index, currentHash, hashFunc) ==
    IF k > Len(hashes) THEN [hash |-> currentHash, HashFunc |-> hashFunc]
    ELSE LET c == IF index % 2 = 0
                  THEN combineHashes(currentHash, hashes[k], hashFunc)
                  ELSE combineHashes(hashes[k], currentHash, hashFunc)
         IN  Replay(hashes, k + 1, Halve(index), c.hash, c.HashFunc)

\* (mutant) the value is never written to the accumulator
HashValueNoWrite(hashFunc, value) == Reset(hashFunc)

\* Step 1 of VerifyProof: the accumulator after the value is written
HashValue(hashFunc, value) == Write(Reset(hashFunc), value)

\* (mutant) a mismatch is reported without an error
VerifyProofNoError(t, proof, value) ==
    LET hf == HashValue(t.HashFunc, value)
        r == Replay(proof.Hashes, 1, proof.Index, Sum(hf), hf)
        t1 == [t EXCEPT !.HashFunc = r.HashFunc]
    IN  IF t.Root = 0 THEN [t |-> t1, proof |-> proof, ok |-> FALSE, err |-> Panic]
        ELSE IF r.hash # t.nodes[t.Root].Hash
        THEN [t |-> t1, proof |-> proof, ok |-> FALSE, err |-> NoErr]
        ELSE [t |-> t1, proof |-> proof, ok |-> TRUE, err |-> NoErr]

\* the running index after the loop over hashes from position k on
RECURSIVE IndexAfter(_, _, _)
IndexAfter(hashes, k, index) ==
    IF k > Len(hashes) THEN index ELSE IndexAfter(hashes, k + 1, Halve(index))

\* (mutant) the loop halves proof.Index in place instead of a local copy
VerifyProofInPlace(t, proof, value) ==
    LET hf == HashValue(t.HashFunc, value)
        r == Replay(proof.Hashes, 1, proof.Index, Sum(hf), hf)
        t1 == [t EXCEPT !.HashFunc = r.HashFunc]
        p1 == [proof EXCEPT !.Index = IndexAfter(proof.Hashes, 1, proof.Index)]
    IN  IF t.Root = 0 THEN [t |-> t1, proof |-> p1, ok |-> FALSE, err |-> Panic]
        ELSE IF r.hash # t.nodes[t.Root].Hash
        THEN [t |-> t1, proof |-> p1, ok |-> FALSE, err |-> ErrProofVerificationFailed]
        ELSE [t |-> t1, proof |-> p1, ok |-> TRUE, err |-> NoErr]

\* VerifyProof(proof, value): the tree, the caller's proof as the call
\* leaves it (index is a local copy; proof.Hashes is only read), the result
VerifyProof(t, proof, value) ==
    LET hf == HashValue(t.HashFunc, value)
        r == Replay(proof.Hashes, 1, proof.Index, Sum(hf), hf)
        t1 == [t EXCEPT !.HashFunc = r.HashFunc]
    IN  IF t.Root = 0 THEN [t |-> t1, proof |-> proof, ok |-> FALSE, err |-> Panic]
        ELSE IF r.hash # t.nodes[t.Root].Hash
        THEN [t |-> t1, proof |-> proof, ok |-> FALSE, err |-> ErrProofVerificationFailed]
        ELSE [t |-> t1, proof |-> proof, ok |-> TRUE, err |-> NoErr]

(* ---------------------------- preHashLeaves --------------------------- *)
numWorkers == Min(numCPU, Len(values))
batchSize == Len(values) \div numWorkers
remainder == Len(values) % numWorkers

\* (mutant) every batch but the first starts one slot early
BatchStartOverlapping(i) == IF i = 0 THEN 0 ELSE i * batchSize - 1

\* the batch [start, end) of the i-th goroutine (i = 0 .. numWorkers-1)
BatchStart(i) == i * batchSize
\* (mutant) the last batch does not take the remainder
BatchEndNoRemainder(i) == BatchStart(i) + batchSize

BatchEnd(i) == BatchStart(i) + batchSize + (IF i = numWorkers - 1 THEN remainder ELSE 0)

\* (mutant) the hasher is not reset between the items of a batch
HashItemNoReset(hasher, val) == Write(hasher, val)

\* hasher.Reset(); hasher.Write(values[j])
HashItem(hasher, val) == Write(Reset(hasher), val)

NoCall == [op |-> "none", index |-> -1, value |-> <<>>, proof |-> NoProof,
           ok |-> FALSE, err |-> NoErr, out |-> NoProof]

NoPrev == [values |-> <<>>, root |-> <<>>, leaves |-> <<>>, workers |-> 0]

Init ==
    /\ pc = "uninit"
    /\ values = <<>>
    /\ numCPU = 1
    /\ group = <<>>
    /\ preHashedLeaves = <<>>
    /\ nodes = <<>>
    /\ Root = 0
    /\ Leaves = <<>>
    /\ HashFunc = <<>>
    /\ fresh = FALSE
    /\ prev = NoPrev
    /\ ret = NoCall

\* (mutant) NewTree without its guard
NewTreeRejectsNothing(vals) == FALSE

\* NewTree's guard: no tree from no values
NewTreeRejects(vals) == Len(vals) = 0

\* NewTree(values, newHashFunc) up to the start of preHashLeaves' loop
NewTreeCall(vals, cpus) ==
    /\ pc = "uninit"
    /\ values' = vals
    /\ numCPU' = cpus
    /\ group' = <<>>
    /\ fresh' = FALSE
    /\ UNCHANGED <<treeVars, prev>>
    /\ IF NewTreeRejects(vals)
       THEN /\ pc' = "failed"
            /\ preHashedLeaves' = <<>>
            /\ ret' = [NoCall EXCEPT !.op = "NewTree", !.err = ErrNoLeaves]
       ELSE IF Min(cpus, Len(vals)) = 0
       THEN \* len(values) / numWorkers divides by zero
            /\ pc' = "panic"
            /\ preHashedLeaves' = [j \in 1..Len(vals) |-> <<>>]
            /\ ret' = [NoCall EXCEPT !.op = "NewTree", !.err = Panic]
       ELSE /\ pc' = "hashing"
            /\ preHashedLeaves' = [j \in 1..Len(vals) |-> <<>>]
            /\ ret' = [NoCall EXCEPT !.op = "NewTree"]

\* one iteration of the loop that starts the goroutines: g.Go(func)
Spawn ==
    /\ pc = "hashing"
    /\ Len(group) < numWorkers
    /\ LET i == Len(group)
       IN  group' = Append(group, [start |-> BatchStart(i), end |-> BatchEnd(i),
                                   j |-> BatchStart(i), hasher |-> <<>>,
                                   at |-> "new"])
    /\ UNCHANGED <<pc, values, numCPU, preHashedLeaves, treeVars, fresh, prev, ret>>

\* hasher := newHashFunc()
WorkerStart(w) ==
    /\ pc = "hashing"
    /\ w \in 1..Len(group)
    /\ group[w].at = "new"
    /\ group' = [group EXCEPT ![w].hasher = newHashFunc, ![w].at = "loop"]
    /\ UNCHANGED <<pc, values, numCPU, preHashedLeaves, treeVars, fresh, prev, ret>>

\* one iteration of the goroutine's loop, or its exit
WorkerStep(w) ==
    /\ pc = "hashing"
    /\ w \in 1..Len(group)
    /\ group[w].at = "loop"
    /\ IF group[w].j < group[w].end
       THEN LET hasher == HashItem(group[w].hasher, values[group[w].j + 1])
            IN  /\ preHashedLeaves' =
                       [preHashedLeaves EXCEPT ![group[w].j + 1] = Sum(hasher)]
                /\ group' = [group EXCEPT ![w].hasher = hasher,
                                          ![w].j = group[w].j + 1]
       ELSE /\ group' = [group EXCEPT ![w].at = "done"]
            /\ UNCHANGED preHashedLeaves
    /\ UNCHANGED <<pc, values, numCPU, treeVars, fresh, prev, ret>>

\* the leaf nodes NewTree makes from the digests: NewNode(hash, values[i])
LeafNodes(hashes, vals) == [i \in 1..Len(hashes) |-> NewNode(hashes[i], vals[i])]

\* (mutant) the wait returns once the goroutines are started
WaitReturnsEarly == Len(group) = numWorkers

\* g.Wait() can return: every goroutine was started and has returned
WaitReturns ==
    /\ Len(group) = numWorkers
    /\ \A w \in 1..Len(group) : group[w].at = "done"

\* g.Wait() returns; NewTree makes the nodes and builds the tree
NewTreeReturn ==
    /\ pc = "hashing"
    /\ WaitReturns
    /\ LET leafNodes == LeafNodes(preHashedLeaves, values)
           ids == [i \in 1..Len(leafNodes) |-> i]
           built == buildTree([nodes |-> leafNodes, HashFunc |-> newHashFunc], ids)
       IN  /\ nodes' = built.nodes
           /\ HashFunc' = built.HashFunc
           /\ Root' = built.root
           /\ Leaves' = ids
    /\ pc' = "ready"
    /\ fresh' = TRUE
    \* ret.index: how many goroutines hashed the leaves
    /\ ret' = [NoCall EXCEPT !.op = "NewTree", !.ok = TRUE, !.index = Len(group)]
    \* the frames of NewTree and preHashLeaves are gone
    /\ values' = <<>>
    /\ numCPU' = 1
    /\ group' = <<>>
    /\ preHashedLeaves' = <<>>
    /\ UNCHANGED prev

(* ----------------------- calls on a built tree ------------------------ *)
SetTree(t) ==
    /\ nodes' = t.nodes
    /\ Root' = t.Root
    /\ Leaves' = t.Leaves
    /\ HashFunc' = t.HashFunc

Outcome(err) == IF err = Panic THEN "panic" ELSE "ready"

UpdateLeafCall(index, newVal) ==
    /\ pc = "ready"
    /\ LET r == UpdateLeaf(Tree, index, newVal)
       IN  /\ SetTree(r.t)
           /\ pc' = Outcome(r.err)
           /\ fresh' = (fresh /\ r.err # NoErr)
           /\ ret' = [NoCall EXCEPT !.op = "UpdateLeaf", !.index = index,
                                    !.value = newVal, !.err = r.err,
                                    !.ok = (r.err = NoErr)]
    /\ UNCHANGED <<buildVars, prev>>

\* the node ids the program can still reach: from Root through child links,
\* and from Leaves through parent links
RECURSIVE Reachable(_, _)
Reachable(t, seen) ==
    LET more == { x \in 1..Len(t.nodes) :
                    \E y \in seen : x \in { t.nodes[y].Left, t.nodes[y].Right,
                                             t.nodes[y].Parent } }
    IN  IF more \subseteq seen THEN seen ELSE Reachable(t, seen \cup more)

Live(t) == Reachable(t, ({ t.Root } \cup { t.Leaves[i] : i \in 1..Len(t.Leaves) }) \ { 0 })

\* the garbage collector: a node nothing refers to any more is zeroed
Collect(t) ==
    [t EXCEPT !.nodes = [x \in 1..Len(t.nodes) |->
                            IF x \in Live(t) THEN t.nodes[x] ELSE NewNode(<<>>, <<>>)]]

RemoveLeafCall(index) ==
    /\ pc = "ready"
    /\ LET r == RemoveLeaf(Tree, index)
       IN  /\ SetTree(Collect(r.t))
           /\ pc' = Outcome(r.err)
           /\ fresh' = (fresh /\ r.err # NoErr)
           /\ ret' = [NoCall EXCEPT !.op = "RemoveLeaf", !.index = index,
                                    !.err = r.err, !.ok = (r.err = NoErr)]
    /\ UNCHANGED <<buildVars, prev>>

GenerateProofCall(value) ==
    /\ pc = "ready"
    /\ LET r == GenerateProof(Tree, value)
       IN  ret' = [NoCall EXCEPT !.op = "GenerateProof", !.value = value,
                                 !.err = r.err, !.ok = (r.err = NoErr),
                                 !.out = r.proof]
    /\ UNCHANGED <<pc, buildVars, treeVars, fresh, prev>>

GenerateProofByIndexCall(index) ==
    /\ pc = "ready"
    /\ LET r == GenerateProofByIndex(Tree, index)
       IN  ret' = [NoCall EXCEPT !.op = "GenerateProofByIndex", !.index = index,
                                 !.err = r.err, !.ok = (r.err = NoErr),
                                 !.out = r.proof]
    /\ UNCHANGED <<pc, buildVars, treeVars, fresh, prev>>

\* digests a forger may put in place of a sibling digest
TamperDigests == { Sum(<<>>), Sum(<<Byte(1)>>) }

\* proof with its k-th sibling digest (1-based) replaced by d
Tamper(proof, k, d) == [proof EXCEPT !.Hashes[k] = d]

\* the proofs the tree issues now
IssuedProofs(t) == { GenerateProofByIndex(t, i).proof : i \in 0..(Len(t.Leaves) - 1) }

\* the proofs callers hand to VerifyProof: issued ones, issued ones with one
\* sibling digest replaced, the proof without siblings and the proof whose
\* only sibling entry is empty
ProofInputs(t) ==
    IssuedProofs(t)
    \cup { Tamper(p, 1, Sum(<<>>)) : p \in { q \in IssuedProofs(t) : Len(q.Hashes) > 0 } }
    \cup { [Hashes |-> <<>>, Index |-> 0], [Hashes |-> << <<>> >>, Index |-> 0] }

VerifyProofCall(proof, value) ==
    /\ pc = "ready"
    /\ LET r == VerifyProof(Tree, proof, value)
       IN  /\ SetTree(r.t)
           /\ pc' = Outcome(r.err)
           /\ ret' = [NoCall EXCEPT !.op = "VerifyProof", !.proof = proof,
                                    !.value = value, !.err = r.err, !.ok = r.ok,
                                    !.out = r.proof]
    /\ UNCHANGED <<buildVars, fresh, prev>>

Next ==
    \/ \E vals \in SeqsUpTo(Values, MaxLeaves), cpus \in 1..MaxCPU : NewTreeCall(vals, cpus)
    \/ Spawn
    \/ \E w \in 1..MaxCPU : WorkerStart(w)
    \/ \E w \in 1..MaxCPU : WorkerStep(w)
    \/ NewTreeReturn
    \/ \E index \in -1..MaxLeaves, newVal \in Values : UpdateLeafCall(index, newVal)
    \/ \E index \in -1..MaxLeaves : RemoveLeafCall(index)
    \/ \E value \in Values : GenerateProofCall(value)
    \/ \E index \in -1..MaxLeaves : GenerateProofByIndexCall(index)
    \/ \E proof \in ProofInputs(Tree), value \in Values : VerifyProofCall(proof, value)

Spec == Init /\ [][Next]_vars

(* ------------------- building twice from the same items --------------- *)
LeafValues(t) == [i \in 1..Len(t.Leaves) |-> t.nodes[t.Leaves[i]].Value]
LeafHashes(t) == [i \in 1..Len(t.Leaves) |-> t.nodes[t.Leaves[i]].Hash]
RootHash(t) == IF t.Root = 0 THEN <<>> ELSE t.nodes[t.Root].Hash

\* the caller keeps what the first NewTree returned and drops the tree
Rerun ==
    /\ pc = "ready"
    /\ ret.op = "NewTree"
    /\ prev = NoPrev
    /\ prev' = [values |-> LeafValues(Tree), root |-> RootHash(Tree),
                leaves |-> LeafHashes(Tree), workers |-> ret.index]
    /\ pc' = "uninit"
    /\ SetTree(NoTree)
    /\ fresh' = FALSE
    /\ ret' = NoCall
    /\ UNCHANGED buildVars

\* the second call is on the items of the first
BuildInputs ==
    IF prev = NoPrev THEN SeqsUpTo(Values, MaxBuildLeaves) ELSE { prev.values }

NextBuild ==
    \/ \E vals \in BuildInputs, cpus \in 1..MaxCPU : NewTreeCall(vals, cpus)
    \/ Spawn
    \/ \E w \in 1..MaxCPU : WorkerStart(w)
    \/ \E w \in 1..MaxCPU : WorkerStep(w)
    \/ NewTreeReturn
    \/ Rerun

SpecBuild == Init /\ [][NextBuild]_vars

(* ------------------ AddLeaf (the version that has it) ----------------- *)
\* the most leaves a tree grows to by AddLeaf
MaxAddLeaves == 5

\* AddLeaf(value): the new leaf is hashed with a hasher of its own
\* (localHashFunc := m.HashFunc()), appended to Leaves, and paired with the
\* current root under a new parent that becomes the root
AddLeaf(t, value) ==
    LET h1 == Write(newHashFunc, value)
        newLeaf == NewNode(Sum(h1), value)
        leaf == Len(t.nodes) + 1
        parent == Len(t.nodes) + 2
        h2 == Write(Write(Reset(h1), t.nodes[t.Root].Hash), newLeaf.Hash)
        newParent == [Left |-> t.Root, Right |-> leaf, Parent |-> 0,
                      Hash |-> Sum(h2), Value |-> <<>>]
    IN  IF t.Root = 0
        THEN [t EXCEPT !.nodes = Append(@, newLeaf),
                       !.Leaves = Append(@, leaf),
                       !.Root = leaf]
        ELSE [t EXCEPT !.nodes = Append(Append([@ EXCEPT ![t.Root].Parent = parent],
                                               [newLeaf EXCEPT !.Parent = parent]),
                                        newParent),
                       !.Leaves = Append(@, leaf),
                       !.Root = parent]

\* ret.index: the number of leaves before the call
AddLeafCall(value) ==
    /\ pc = "ready"
    /\ Len(Leaves) < MaxAddLeaves
    /\ SetTree(AddLeaf(Tree, value))
    /\ fresh' = FALSE
    /\ ret' = [NoCall EXCEPT !.op = "AddLeaf", !.value = value, !.ok = TRUE,
                             !.index = Len(Leaves)]
    /\ UNCHANGED <<pc, buildVars, prev>>

NextAdd ==
    \/ \E vals \in SeqsUpTo(Values, MaxLeaves), cpus \in 1..MaxCPU : NewTreeCall(vals, cpus)
    \/ Spawn
    \/ \E w \in 1..MaxCPU : WorkerStart(w)
    \/ \E w \in 1..MaxCPU : WorkerStep(w)
    \/ NewTreeReturn
    \/ \E value \in Values : AddLeafCall(value)

SpecAdd == Init /\ [][NextAdd]_vars

(* --------------- a proof held across later mutations ------------------ *)
\* a digest is a Go slice: a node's Hash field and an entry of proof.Hashes
\* taken from it share one backing array. prev.heap holds the arrays,
\* prev.at the address of each node's Hash, prev.Hashes the addresses the
\* entries of the held proof point to (0: a nil entry).

\* the most mutating calls made after the proof was issued
MaxLater == 2

\* the sibling nodes met by the climb of GenerateProofByIndex (0: none)
RECURSIVE SiblingNodes(_, _, _)
SiblingNodes(t, current, found) ==
    IF t.nodes[current].Parent = 0 THEN found
    ELSE LET parent == t.nodes[current].Parent
             sibling == IF t.nodes[parent].Left = current THEN t.nodes[parent].Right
                                                          ELSE t.nodes[parent].Left
         IN  SiblingNodes(t, parent, Append(found, sibling))

\* (mutant) the new digest is written over the bytes of the old one
StoreHashInPlace(h, x, bytes) ==
    [heap |-> [h.heap EXCEPT ![h.at[x]] = bytes], at |-> h.at]

\* x.Hash = t.HashFunc.Sum(nil): Sum appends to nil, that is to a new array
StoreHash(h, x, bytes) ==
    [heap |-> Append(h.heap, bytes), at |-> [h.at EXCEPT ![x] = Len(h.heap) + 1]]

\* the stores of one call, in the order of the climb: xs are the nodes
\* written, ns the nodes after the call
RECURSIVE StoreAll(_, _, _)
StoreAll(h, xs, ns) ==
    IF xs = <<>> THEN h
    ELSE StoreAll(StoreHash(h, Head(xs), ns[Head(xs)].Hash), Tail(xs), ns)

\* node x and the nodes above it, bottom up
RECURSIVE PathUp(_, _)
PathUp(t, x) == IF x = 0 THEN <<>> ELSE << x >> \o PathUp(t, t.nodes[x].Parent)

\* the caller keeps the proof GenerateProofByIndex(index) returned
HoldProof(index, op, value) ==
    /\ pc = "ready"
    /\ prev = NoPrev
    /\ ~IndexOutOfBounds(Tree, index)
    /\ LET r == GenerateProofByIndex(Tree, index)
       IN  /\ prev' = [issued |-> r.proof,
                       Index |-> r.proof.Index,
                       Hashes |-> SiblingNodes(Tree, Leaves[index + 1], <<>>),
                       heap |-> [x \in 1..Len(nodes) |-> nodes[x].Hash],
                       at |-> [x \in 1..Len(nodes) |-> x],
                       later |-> 0]
           /\ ret' = [NoCall EXCEPT !.op = op, !.index = index, !.value = value,
                                    !.ok = TRUE, !.out = r.proof]
    /\ UNCHANGED <<pc, buildVars, treeVars, fresh>>

HoldProofByIndex(index) == HoldProof(index, "GenerateProofByIndex", <<>>)

HoldProofByValue(value) ==
    /\ FindLeaf(Tree, value, 0) # -1
    /\ HoldProof(FindLeaf(Tree, value, 0), "GenerateProof", value)

\* the stores of a call that wrote the Hash of the nodes xs
Stored(xs, ns) ==
    IF prev = NoPrev THEN prev
    ELSE LET h == StoreAll([heap |-> prev.heap, at |-> prev.at], xs, ns)
         IN  [prev EXCEPT !.heap = h.heap, !.at = h.at, !.later = @ + 1]

\* a successful UpdateLeaf, before or after the proof was issued
LaterUpdateLeaf(index, newVal) ==
    /\ pc = "ready"
    /\ prev # NoPrev => prev.later < MaxLater
    /\ ~IndexOutOfBounds(Tree, index)
    /\ LET r == UpdateLeaf(Tree, index, newVal)
       IN  /\ SetTree(r.t)
           /\ prev' = Stored(PathUp(Tree, Leaves[index + 1]), r.t.nodes)
    /\ fresh' = FALSE
    /\ ret' = [NoCall EXCEPT !.op = "UpdateLeaf", !.index = index,
                             !.value = newVal, !.ok = TRUE]
    /\ UNCHANGED <<pc, buildVars>>

\* a successful RemoveLeaf, before or after the proof was issued
LaterRemoveLeaf(index) ==
    /\ pc = "ready"
    /\ prev # NoPrev => prev.later < MaxLater
    /\ ~IndexOutOfBounds(Tree, index)
    /\ LET r == RemoveLeaf(Tree, index)
       IN  /\ r.err = NoErr
           /\ SetTree(Collect(r.t))
           /\ prev' = Stored(PathUp(Tree, nodes[Leaves[index + 1]].Parent), r.t.nodes)
    /\ fresh' = FALSE
    /\ ret' = [NoCall EXCEPT !.op = "RemoveLeaf", !.index = index, !.ok = TRUE]
    /\ UNCHANGED <<pc, buildVars>>

NextHeld ==
    \/ \E vals \in SeqsUpTo(Values, MaxLeaves), cpus \in 1..MaxCPU : NewTreeCall(vals, cpus)
    \/ Spawn
    \/ \E w \in 1..MaxCPU : WorkerStart(w)
    \/ \E w \in 1..MaxCPU : WorkerStep(w)
    \/ NewTreeReturn
    \/ \E index \in 0..(MaxLeaves - 1) : HoldProofByIndex(index)
    \/ \E value \in Values : HoldProofByValue(value)
    \/ \E index \in 0..(MaxLeaves - 1), newVal \in Values : LaterUpdateLeaf(index, newVal)
    \/ \E index \in 0..(MaxLeaves - 1) : LaterRemoveLeaf(index)

SpecHeld == Init /\ [][NextHeld]_vars

(* ------------------- updates of a freshly built tree ------------------ *)
NextUpdate ==
    \/ \E vals \in SeqsUpTo(Values, MaxLeaves), cpus \in 1..MaxCPU : NewTreeCall(vals, cpus)
    \/ Spawn
    \/ \E w \in 1..MaxCPU : WorkerStart(w)
    \/ \E w \in 1..MaxCPU : WorkerStep(w)
    \/ NewTreeReturn
    \/ \E index \in -1..MaxLeaves, newVal \in Values : UpdateLeafCall(index, newVal)

SpecUpdate == Init /\ [][NextUpdate]_vars

(* ----------------------- combineHashes on its own --------------------- *)
\* byte strings handed to combineHashes: empty, digests, raw bytes
CombineInputs ==
    { <<>>, Sum(<<>>), Sum(<<Byte(1)>>), Sum(Sum(<<>>) \o Sum(<<Byte(1)>>)),
      <<Byte(1)>>, <<Byte(1), Byte(1)>>, <<Byte(1), Byte(2)>> }

\* what the accumulator may hold when combineHashes is called
Accumulators == { <<>>, <<Byte(1)>>, Sum(<<>>), Sum(<<>>) \o Sum(<<Byte(1)>>) }

\* ret.proof.Hashes holds leftHash and rightHash of the call to come
InitCombine ==
    /\ pc = "combine"
    /\ values = <<>>
    /\ numCPU = 1
    /\ group = <<>>
    /\ preHashedLeaves = <<>>
    /\ nodes = <<>>
    /\ Root = 0
    /\ Leaves = <<>>
    /\ HashFunc \in Accumulators
    /\ fresh = FALSE
    /\ prev = NoPrev
    /\ \E leftHash, rightHash \in CombineInputs :
          ret = [NoCall EXCEPT !.op = "combineHashes",
                               !.proof = [Hashes |-> << leftHash, rightHash >>, Index |-> 0]]

\* the call; ret.value is the result, ret.out.Hashes the accumulator before
CombineCall ==
    /\ pc = "combine"
    /\ LET c == combineHashes(ret.proof.Hashes[1], ret.proof.Hashes[2], HashFunc)
       IN  /\ HashFunc' = c.HashFunc
           /\ ret' = [ret EXCEPT !.value = c.hash, !.ok = TRUE,
                                 !.out = [Hashes |-> << HashFunc >>, Index |-> 0]]
    /\ pc' = "combined"
    /\ UNCHANGED <<buildVars, nodes, Root, Leaves, fresh, prev>>

SpecCombine == InitCombine /\ [][CombineCall]_vars

(* ------------- two VerifyProof calls on one tree at a time ------------ *)
\* the most leaves of the tree the two calls verify against
MaxVerifyLeaves == 2

\* a call of VerifyProof between two of its steps on t.HashFunc: group[w]
\* holds its arguments, its locals (k: the position in proof.Hashes,
\* 1-based; leftHash, rightHash: the arguments of the combineHashes call
\* under way) and where it stands
Verifier(proof, value) ==
    [proof |-> proof, value |-> value, at |-> "Reset", k |-> 1,
     index |-> proof.Index, currentHash |-> <<>>, leftHash |-> <<>>,
     rightHash |-> <<>>, ok |-> FALSE, err |-> NoErr]

\* the loop head and the comparison after the loop, with currentHash set:
\* either the next combineHashes call begins or the call returns
LoopOrReturn(v, t) ==
    IF v.k > Len(v.proof.Hashes)
    THEN IF t.Root = 0 THEN [v EXCEPT !.at = "done", !.err = Panic]
         ELSE IF v.currentHash # t.nodes[t.Root].Hash
         THEN [v EXCEPT !.at = "done", !.ok = FALSE,
                        !.err = ErrProofVerificationFailed]
         ELSE [v EXCEPT !.at = "done", !.ok = TRUE, !.err = NoErr]
    ELSE [v EXCEPT !.at = "combineReset",
                   !.leftHash = IF v.index % 2 = 0 THEN v.currentHash
                                                   ELSE v.proof.Hashes[v.k],
                   !.rightHash = IF v.index % 2 = 0 THEN v.proof.Hashes[v.k]
                                                    ELSE v.currentHash]

\* combineHashes has returned hash: index /= 2 and the next round
NextRound(v, hash, t) ==
    LoopOrReturn([v EXCEPT !.currentHash = hash, !.index = Halve(v.index),
                           !.k = v.k + 1], t)

\* both calls start on the tree NewTree returned
VerifyTwice(proof1, value1, proof2, value2) ==
    /\ pc = "ready"
    /\ fresh
    /\ pc' = "verifying"
    /\ group' = << Verifier(proof1, value1), Verifier(proof2, value2) >>
    /\ ret' = [NoCall EXCEPT !.op = "VerifyProof"]
    /\ UNCHANGED <<values, numCPU, preHashedLeaves, treeVars, fresh, prev>>

\* one step of call w on the shared accumulator t.HashFunc
VerifyStep(w) ==
    /\ pc = "verifying"
    /\ w \in 1..Len(group)
    /\ group[w].at # "done"
    /\ LET v == group[w]
       IN  CASE v.at = "Reset" ->
                  /\ HashFunc' = Reset(HashFunc)
                  /\ group' = [group EXCEPT ![w].at = "Write"]
             [] v.at = "Write" ->
                  /\ HashFunc' = Write(HashFunc, v.value)
                  /\ group' = [group EXCEPT ![w].at = "Sum"]
             [] v.at = "Sum" ->
                  /\ HashFunc' = HashFunc
                  /\ group' = [group EXCEPT
                                 ![w] = LoopOrReturn([v EXCEPT !.currentHash = Sum(HashFunc)],
                                                     Tree)]
             [] v.at = "combineReset" ->
                  /\ HashFunc' = Reset(HashFunc)
                  /\ group' = [group EXCEPT
                                 ![w] = IF Len(v.leftHash) = 0
                                        THEN NextRound(v, v.rightHash, Tree)
                                        ELSE IF Len(v.rightHash) = 0
                                        THEN NextRound(v, v.leftHash, Tree)
                                        ELSE [v EXCEPT !.at = "combineWriteLeft"]]
             [] v.at = "combineWriteLeft" ->
                  /\ HashFunc' = Write(HashFunc, v.leftHash)
                  /\ group' = [group EXCEPT ![w].at = "combineWriteRight"]
             [] v.at = "combineWriteRight" ->
                  /\ HashFunc' = Write(HashFunc, v.rightHash)
                  /\ group' = [group EXCEPT ![w].at = "combineSum"]
             [] v.at = "combineSum" ->
                  /\ HashFunc' = HashFunc
                  /\ group' = [group EXCEPT ![w] = NextRound(v, Sum(HashFunc), Tree)]
    /\ UNCHANGED <<pc, values, numCPU, preHashedLeaves, nodes, Root, Leaves,
                   fresh, prev, ret>>

\* the arguments of a call: an issued proof and an item
VerifyInputs == IssuedProofs(Tree) \X Values

NextVerify ==
    \/ \E vals \in SeqsUpTo(Values, MaxVerifyLeaves), cpus \in 1..MaxCPU :
          NewTreeCall(vals, cpus)
    \/ Spawn
    \/ \E w \in 1..MaxCPU : WorkerStart(w)
    \/ \E w \in 1..MaxCPU : WorkerStep(w)
    \/ NewTreeReturn
    \/ \E a, b \in VerifyInputs : VerifyTwice(a[1], a[2], b[1], b[2])
    \/ \E w \in 1..2 : VerifyStep(w)

SpecVerify == Init /\ [][NextVerify]_vars

(* ============================== claims ================================ *)
LeafIndexes == 0..(Len(Leaves) - 1)
LeafValue(i) == nodes[Leaves[i + 1]].Value

\* GenerateProofByIndex(i) succeeds and VerifyProof accepts its proof for
\* the value of leaf i, with no error
RoundTrip(i) ==
    LET g == GenerateProofByIndex(Tree, i)
        v == VerifyProof(Tree, g.proof, LeafValue(i))
    IN  g.err = NoErr /\ v.ok /\ v.err = NoErr

\* C1: on a tree as NewTree built it, for every leaf index i (the promoted
\* trailing leaf included) VerifyProof(GenerateProofByIndex(i),
\* Leaves[i].Value) returns true with no error.
C1_RoundTripFresh ==
    (pc = "ready" /\ fresh) => \A i \in LeafIndexes : RoundTrip(i)

\* C2: after successful UpdateLeaf and RemoveLeaf calls that leave at least
\* one leaf, for every leaf index i VerifyProof(GenerateProofByIndex(i),
\* Leaves[i].Value) returns true with no error.
C2_RoundTripMutated ==
    (pc = "ready" /\ ~fresh /\ Len(Leaves) >= 1) => \A i \in LeafIndexes : RoundTrip(i)

\* the digests held by the nodes of the tree, and the digests of the items
TreeDigests == { nodes[x].Hash : x \in 1..Len(nodes) } \ { <<>> }
ForgedDigests == TreeDigests \cup { Sum(v) : v \in Values } \cup { Sum(<<Byte(2)>>) }

\* proofs a caller may hold: the issued ones, the issued ones under another
\* leaf position, and every proof of at most one sibling digest (nil
\* included) taken from the tree
HeldProofs ==
    IssuedProofs(Tree)
    \cup { [p EXCEPT !.Index = i] : p \in IssuedProofs(Tree), i \in 0..MaxLeaves }
    \cup { [Hashes |-> h, Index |-> i] :
             h \in SeqsUpTo(TreeDigests \cup { <<>> }, 1), i \in 0..1 }

Accepts(proof, value) == VerifyProof(Tree, proof, value).ok

\* C3: if VerifyProof accepts a proof for a value v, it rejects the proof
\* with any one sibling digest replaced by a different digest, and it
\* rejects the unchanged proof for any value other than v.
C3_Tamper ==
    (pc = "ready" /\ Root # 0) =>
        \A p \in HeldProofs, v \in Values :
            Accepts(p, v) =>
                /\ \A k \in 1..Len(p.Hashes), d \in ForgedDigests :
                       d # p.Hashes[k] => ~Accepts(Tamper(p, k, d), v)
                /\ \A v2 \in (Values \cup { <<Byte(2)>> }) \ { v } : ~Accepts(p, v2)

\* a call of VerifyProof rejected a proof that differs in its first sibling
\* digest from an issued proof that is accepted for the same value
C3_Witness ==
    /\ pc = "ready"
    /\ ret.op = "VerifyProof"
    /\ ~ret.ok
    /\ Len(ret.proof.Hashes) > 0
    /\ \E p \in IssuedProofs(Tree) :
          /\ Len(p.Hashes) > 0
          /\ Accepts(p, ret.value)
          /\ ret.proof # p
          /\ ret.proof = Tamper(p, 1, ret.proof.Hashes[1])

\* the reference build over digests: pair adjacent digests left to right,
\* carry an unpaired trailing digest up unchanged
RECURSIVE RefLevel(_)
RefLevel(ds) ==
    IF Len(ds) <= 1 THEN ds
    ELSE << Sum(ds[1] \o ds[2]) >> \o RefLevel(SubSeq(ds, 3, Len(ds)))

RECURSIVE RefRoot(_)
RefRoot(ds) == IF Len(ds) = 1 THEN ds[1] ELSE RefRoot(RefLevel(ds))

InternalNodes ==
    { x \in Reachable(Tree, { Root } \ { 0 }) : \A i \in 1..Len(Leaves) : Leaves[i] # x }

\* C4: the root digest of a tree as NewTree built it is the result of the
\* reference build over the digests of the items: digest(item) for one item,
\* combine(d0, d1) for two, combine(combine(d0, d1), d2) for three; and
\* every internal node has two children.
C4_BuildMatchesReference ==
    (pc = "ready" /\ fresh) =>
        LET d == [i \in 1..Len(Leaves) |-> Sum(LeafValue(i - 1))]
        IN  /\ RootHash(Tree) = RefRoot(d)
            /\ Len(d) = 1 => RootHash(Tree) = d[1]
            /\ Len(d) = 2 => RootHash(Tree) = Sum(d[1] \o d[2])
            /\ Len(d) = 3 => RootHash(Tree) = Sum(Sum(d[1] \o d[2]) \o d[3])
            /\ \A x \in InternalNodes : nodes[x].Left # 0 /\ nodes[x].Right # 0

\* a tree built from five items, whose last leaf was carried up twice
C4_Witness ==
    /\ pc = "ready"
    /\ fresh
    /\ Len(Leaves) = 5
    /\ nodes[Leaves[5]].Parent = Root
    /\ LeafValue(0) # LeafValue(1)

\* C5: a second NewTree on the items of a first one returns the same root
\* digest and the same leaf digests, whatever the number of workers and
\* their interleaving in either run.
C5_BuildDeterministic ==
    (pc = "ready" /\ prev # NoPrev) =>
        /\ RootHash(Tree) = prev.root
        /\ LeafHashes(Tree) = prev.leaves

\* a second build has returned, hashed by another number of workers
C5_Witness ==
    /\ pc = "ready"
    /\ prev # NoPrev
    /\ ret.op = "NewTree"
    /\ ret.index # prev.workers
    /\ Len(Leaves) >= 3

\* C6: when preHashLeaves returns, slot j holds the digest of values[j]
\* alone, for every j and every interleaving of the workers, and NewTree
\* sets Leaves[j].Value = values[j] and Leaves[j].Hash to that digest.
C6_LeafDigestOrder ==
    /\ [](pc = "hashing" =>
            \A j \in 1..Len(values) :
                preHashedLeaves[j] # <<>> => preHashedLeaves[j] = Sum(values[j]))
    /\ [][(pc = "hashing" /\ pc' = "ready") =>
            /\ Len(preHashedLeaves) = Len(values)
            /\ Len(Leaves') = Len(values)
            /\ \A j \in 1..Len(values) :
                   /\ preHashedLeaves[j] = Sum(values[j])
                   /\ nodes'[Leaves'[j]].Value = values[j]
                   /\ nodes'[Leaves'[j]].Hash = Sum(values[j])]_vars

\* preHashLeaves is about to return after several workers hashed at least
\* three items, a later slot having been written before an earlier one
C6_Witness ==
    /\ pc = "hashing"
    /\ Len(values) >= 3
    /\ Len(group) >= 2
    /\ preHashedLeaves[1] = <<>>
    /\ preHashedLeaves[Len(values)] # <<>>

\* C7: NewTree called with no items returns ErrNoLeaves and no tree; no
\* worker is started and no node exists.
C7_NoLeaves ==
    [][(pc = "uninit" /\ pc' # "uninit" /\ values' = <<>>) =>
            /\ pc' = "failed"
            /\ ret'.op = "NewTree"
            /\ ret'.err = ErrNoLeaves
            /\ ~ret'.ok
            /\ group' = <<>>
            /\ preHashedLeaves' = <<>>
            /\ <<nodes', Root', Leaves'>> = <<NoTree.nodes, NoTree.Root, NoTree.Leaves>>]_vars

C7_Witness ==
    /\ pc = "failed"
    /\ values = <<>>
    /\ ret.err = ErrNoLeaves

\* C8: UpdateLeaf, RemoveLeaf and GenerateProofByIndex called with an index
\* outside [0, len(Leaves)) return ErrIndexOutOfBounds and leave Root,
\* Leaves and every node unchanged.
C8_IndexOutOfBounds ==
    [][(/\ pc = "ready"
        /\ ret'.op \in { "UpdateLeaf", "RemoveLeaf", "GenerateProofByIndex" }
        /\ ret'.index \notin 0..(Len(Leaves) - 1)) =>
            /\ ret'.err = ErrIndexOutOfBounds
            /\ ~ret'.ok
            /\ UNCHANGED <<nodes, Root, Leaves>>]_vars

\* RemoveLeaf was refused for the index equal to the length of a tree that
\* an earlier removal had shrunk
C8_Witness ==
    /\ pc = "ready"
    /\ ~fresh
    /\ ret.op = "RemoveLeaf"
    /\ ret.index = Len(Leaves)
    /\ Len(Leaves) >= 1
    /\ ret.err = ErrIndexOutOfBounds

\* C9: GenerateProof(value) returns ErrNoVal exactly when no leaf in Leaves
\* holds the value.
C9_NoSuchValue ==
    (pc = "ready" /\ ret.op = "GenerateProof") =>
        /\ ret.err = ErrNoVal <=> ~(\E i \in LeafIndexes : LeafValue(i) = ret.value)
        /\ ret.err \in { ErrNoVal, NoErr }

\* GenerateProof failed for a value that is gone from a tree that still has
\* leaves
C9_Witness ==
    /\ pc = "ready"
    /\ ~fresh
    /\ Len(Leaves) >= 1
    /\ ret.op = "GenerateProof"
    /\ ret.err = ErrNoVal

\* the lowest index whose leaf holds the value
LowestIndex(value) ==
    CHOOSE k \in LeafIndexes :
        /\ LeafValue(k) = value
        /\ \A j \in 0..(k - 1) : LeafValue(j) # value

\* C10: GenerateProof(value) returns the proof GenerateProofByIndex(k)
\* returns for k the lowest index whose leaf holds the value.
C10_LowestIndex ==
    (pc = "ready" /\ ret.op = "GenerateProof" /\ ret.err = NoErr) =>
        /\ ret.out.Index = LowestIndex(ret.value)
        /\ ret.out = GenerateProofByIndex(Tree, LowestIndex(ret.value)).proof

\* GenerateProof succeeded for a value that two leaves hold, the second of
\* them with another proof
C10_Witness ==
    /\ pc = "ready"
    /\ ret.op = "GenerateProof"
    /\ ret.err = NoErr
    /\ \E i \in LeafIndexes, j \in LeafIndexes :
          /\ i < j
          /\ LeafValue(i) = ret.value
          /\ LeafValue(j) = ret.value
          /\ GenerateProofByIndex(Tree, j).proof # ret.out

\* the sibling digests met on the climb from node x to the root: one entry
\* for each level at which the climbed node has a sibling, no entry for a
\* level at which it has none
RECURSIVE SiblingDigests(_)
SiblingDigests(x) ==
    LET parent == nodes[x].Parent
        sibling == IF nodes[parent].Left = x THEN nodes[parent].Right
                                             ELSE nodes[parent].Left
    IN  IF parent = 0 THEN <<>>
        ELSE (IF sibling = 0 THEN <<>> ELSE << nodes[sibling].Hash >>)
                 \o SiblingDigests(parent)

\* C11: in every tree state and for every valid index i,
\* GenerateProofByIndex(i) returns a proof with Index = i whose Hashes are
\* the sibling digests from leaf to root, one entry per level that has a
\* sibling and no entry at all for a level that has none.
C11_ProofContent ==
    pc = "ready" =>
        \A i \in LeafIndexes :
            LET g == GenerateProofByIndex(Tree, i)
            IN  /\ g.err = NoErr
                /\ g.proof.Index = i
                /\ g.proof.Hashes = SiblingDigests(Leaves[i + 1])

\* the replay of the verification protocol from digest current on: the
\* combination takes the running digest first when the running index is
\* even and the sibling first when it is odd; the index is halved as Go's
\* integer division does. With skip, an empty side is not hashed and the
\* other side is the result; without skip both sides are always hashed.
RECURSIVE ProtocolReplay(_, _, _, _)
ProtocolReplay(hashes, index, current, skip) ==
    IF hashes = <<>> THEN current
    ELSE LET sibling == Head(hashes)
             left == IF index % 2 = 0 THEN current ELSE sibling
             right == IF index % 2 = 0 THEN sibling ELSE current
             combined == IF skip /\ left = <<>> THEN right
                         ELSE IF skip /\ right = <<>> THEN left
                         ELSE Sum(left \o right)
             half == IF index >= 0 THEN index \div 2 ELSE -((-index) \div 2)
         IN  ProtocolReplay(Tail(hashes), half, combined, skip)

\* proofs of any content: the held ones, the issued ones with a negative
\* Index, and the issued ones with one sibling entry emptied
AnyProofs ==
    HeldProofs
    \cup { [p EXCEPT !.Index = -1] : p \in IssuedProofs(Tree) }
    \cup UNION { { Tamper(p, k, <<>>) : k \in 1..Len(p.Hashes) } : p \in IssuedProofs(Tree) }

\* C12 (as stated): for every proof (empty sibling entries and any Index
\* included) and every value, VerifyProof reports valid exactly when the
\* replay from digest(value) equals Root.Hash, the combination always
\* hashing the left bytes followed by the right bytes.
C12_ReplayAlwaysHashing ==
    (pc = "ready" /\ Root # 0) =>
        \A p \in AnyProofs, v \in Values :
            VerifyProof(Tree, p, v).ok <=>
                ProtocolReplay(p.Hashes, p.Index, Sum(v), FALSE) = RootHash(Tree)

\* C12 (amended): for every proof (empty sibling entries and any Index
\* included) and every value, VerifyProof reports valid exactly when the
\* replay from digest(value) equals Root.Hash, the combination hashing the
\* left bytes followed by the right bytes when both sides are non-empty and
\* returning the other side unchanged, unhashed, when one side is empty.
C12_Replay ==
    (pc = "ready" /\ Root # 0) =>
        \A p \in AnyProofs, v \in Values :
            LET r == VerifyProof(Tree, p, v)
                valid == ProtocolReplay(p.Hashes, p.Index, Sum(v), TRUE) = RootHash(Tree)
            IN  /\ r.ok <=> valid
                /\ r.err = (IF valid THEN NoErr ELSE ErrProofVerificationFailed)

\* a call of VerifyProof accepted a proof with an empty sibling entry
C12_Witness ==
    /\ pc = "ready"
    /\ ret.op = "VerifyProof"
    /\ ret.ok
    /\ \E k \in 1..Len(ret.proof.Hashes) : ret.proof.Hashes[k] = <<>>

\* C13: on a tree with at least one leaf a call of VerifyProof has one of
\* two outcomes and no other: (true, nil) when the replayed digest equals
\* Root.Hash, (false, ErrProofVerificationFailed) when it does not.
C13_TwoOutcomes ==
    (ret.op = "VerifyProof" /\ Len(Leaves) >= 1) =>
        IF ProtocolReplay(ret.proof.Hashes, ret.proof.Index, Sum(ret.value), TRUE)
               = RootHash(Tree)
        THEN ret.ok /\ ret.err = NoErr
        ELSE ~ret.ok /\ ret.err = ErrProofVerificationFailed

\* a call of VerifyProof on a tree with leaves ended in a mismatch
C13_Witness ==
    /\ pc = "ready"
    /\ ret.op = "VerifyProof"
    /\ Len(Leaves) >= 1
    /\ ~ret.ok
    /\ ProtocolReplay(ret.proof.Hashes, ret.proof.Index, Sum(ret.value), TRUE)
           # RootHash(Tree)

\* C14: VerifyProof leaves the caller's proof (Index and Hashes) as it was
\* handed in, and verifying the same proof again, any number of times,
\* against the unchanged tree returns the same result.
C14_ProofUnchanged ==
    (pc = "ready" /\ ret.op = "VerifyProof") =>
        /\ ret.out = ret.proof
        /\ LET second == VerifyProof(Tree, ret.out, ret.value)
               third == VerifyProof(second.t, second.proof, ret.value)
           IN  /\ second.proof = ret.proof /\ third.proof = ret.proof
               /\ second.ok = ret.ok /\ second.err = ret.err
               /\ third.ok = ret.ok /\ third.err = ret.err

\* VerifyProof accepted a proof of a leaf with a non-zero index and at
\* least one sibling digest, the running index of which changes in the loop
C14_Witness ==
    /\ pc = "ready"
    /\ ret.op = "VerifyProof"
    /\ ret.ok
    /\ Len(ret.proof.Hashes) >= 1
    /\ ret.proof.Index >= 1
    /\ IndexAfter(ret.proof.Hashes, 1, ret.proof.Index) # ret.proof.Index

\* C15: a proof with zero sibling digests is accepted for a value if and
\* only if the tree has exactly one leaf and digest(value) equals that
\* leaf's digest, which equals the root digest; in particular no value is
\* accepted with an empty Hashes sequence on a tree of two or more leaves.
C15_ZeroSiblings ==
    pc = "ready" =>
        \A v \in Values, i \in 0..MaxLeaves :
            Accepts([Hashes |-> <<>>, Index |-> i], v) <=>
                /\ Len(Leaves) = 1
                /\ Sum(v) = nodes[Leaves[1]].Hash
                /\ nodes[Leaves[1]].Hash = RootHash(Tree)

\* C16: after any sequence of NewTree, UpdateLeaf and RemoveLeaf, every
\* node reachable from Root that has two children holds the digest of its
\* left child's digest followed by its right child's digest, and every
\* node that has exactly one child holds that child's digest verbatim.
C16_NodeDigests ==
    pc = "ready" =>
        \A x \in Reachable(Tree, { Root } \ { 0 }) :
            LET left == nodes[x].Left
                right == nodes[x].Right
            IN  /\ (left # 0 /\ right # 0) =>
                       nodes[x].Hash = Sum(nodes[left].Hash \o nodes[right].Hash)
                /\ (left # 0 /\ right = 0) => nodes[x].Hash = nodes[left].Hash
                /\ (left = 0 /\ right # 0) => nodes[x].Hash = nodes[right].Hash

\* C17: Root is nil if and only if Leaves is empty; in particular every
\* successful RemoveLeaf that removes the last remaining leaf leaves the
\* tree without a root, whatever the tree's earlier shape.
C17_RootNilIffEmpty ==
    pc = "ready" => (Root = 0 <=> Len(Leaves) = 0)

\* the nodes above node x, by the parent links
RECURSIVE Ancestors(_)
Ancestors(x) ==
    IF nodes[x].Parent = 0 THEN {}
    ELSE { nodes[x].Parent } \cup Ancestors(nodes[x].Parent)

\* C18: a successful UpdateLeaf(i, v) sets Leaves[i].Value to v and
\* Leaves[i].Hash to digest(v), changes no digest other than those of leaf
\* i and its ancestors, and leaves the leaf count, the leaf order, the
\* root, all links and every other node's value and digest unchanged.
C18_UpdateLocality ==
    [][(pc = "ready" /\ ret'.op = "UpdateLeaf" /\ ret'.ok) =>
          LET leaf == Leaves[ret'.index + 1]
              touched == { leaf } \cup Ancestors(leaf)
          IN  /\ Leaves' = Leaves
              /\ Root' = Root
              /\ Len(nodes') = Len(nodes)
              /\ nodes'[leaf].Value = ret'.value
              /\ nodes'[leaf].Hash = Sum(ret'.value)
              /\ \A x \in 1..Len(nodes) :
                    /\ nodes'[x].Left = nodes[x].Left
                    /\ nodes'[x].Right = nodes[x].Right
                    /\ nodes'[x].Parent = nodes[x].Parent
                    /\ x # leaf => nodes'[x].Value = nodes[x].Value
                    /\ x \notin touched => nodes'[x].Hash = nodes[x].Hash]_vars

\* UpdateLeaf succeeded on a tree that has an inner node beside the path
\* from the updated leaf to the root
C18_Witness ==
    /\ pc = "ready"
    /\ ret.op = "UpdateLeaf"
    /\ ret.ok
    /\ nodes[Leaves[ret.index + 1]].Value = ret.value
    /\ \E x \in InternalNodes :
          /\ x \notin Ancestors(Leaves[ret.index + 1])
          /\ nodes[x].Left # 0
          /\ nodes[x].Hash # <<>>

\* the root digest buildTree produces over the current leaf sequence
RebuiltRoot ==
    LET leafNodes == LeafNodes(LeafHashes(Tree), LeafValues(Tree))
        ids == [i \in 1..Len(leafNodes) |-> i]
        built == buildTree([nodes |-> leafNodes, HashFunc |-> newHashFunc], ids)
    IN  built.nodes[built.root].Hash

\* C19: after AddLeaf(v) on a tree with leaves, whatever their number, the
\* root digest equals the root digest that buildTree produces over the
\* updated leaf sequence (the old leaves followed by the new leaf).
C19_AddEquivalence ==
    (pc = "ready" /\ ret.op = "AddLeaf") =>
        /\ nodes[Leaves[Len(Leaves)]].Value = ret.value
        /\ RootHash(Tree) = RebuiltRoot

\* C20: in every reachable state, the tree without leaves included, a call
\* of UpdateLeaf, RemoveLeaf, GenerateProof, GenerateProofByIndex or
\* VerifyProof returns normally (a result or a defined error); none aborts.
C20_NoAbort ==
    ret.op \in { "UpdateLeaf", "RemoveLeaf", "GenerateProof",
                 "GenerateProofByIndex", "VerifyProof" } =>
        /\ pc # "panic"
        /\ ret.err # Panic

\* the position (1-based) of node x in the leaf sequence ls, 0 if absent
PositionIn(ls, x) ==
    IF \E i \in 1..Len(ls) : ls[i] = x
    THEN CHOOSE i \in 1..Len(ls) : ls[i] = x
    ELSE 0

\* the shape of the subtree under x: <<>> for no node, the leaf position
\* for a leaf, the shapes of the two sides for any other node
RECURSIVE Shape(_, _, _)
Shape(ns, ls, x) ==
    IF x = 0 THEN <<>>
    ELSE IF PositionIn(ls, x) # 0 THEN << "leaf", PositionIn(ls, x) >>
    ELSE << "node", Shape(ns, ls, ns[x].Left), Shape(ns, ls, ns[x].Right) >>

\* the tree buildTree makes from the current leaf sequence
Rebuilt ==
    LET leafNodes == LeafNodes(LeafHashes(Tree), LeafValues(Tree))
        ids == [i \in 1..Len(leafNodes) |-> i]
    IN  [ids |-> ids,
         built |-> buildTree([nodes |-> leafNodes, HashFunc |-> newHashFunc], ids)]

\* C21: after any sequence of NewTree, UpdateLeaf and RemoveLeaf that
\* leaves at least one leaf, the tree reachable from Root has the shape and
\* the leaf placement of a tree freshly built from the current leaf
\* sequence: the leaf at position i is where bottom-up pairing puts it.
C21_TopologyAgrees ==
    (pc = "ready" /\ Len(Leaves) >= 1) =>
        Shape(nodes, Leaves, Root) = Shape(Rebuilt.built.nodes, Rebuilt.ids, Rebuilt.built.root)

\* the proof the caller holds, read through the arrays its entries point to
HeldProof ==
    [Hashes |-> [k \in 1..Len(prev.Hashes) |->
                    IF prev.Hashes[k] = 0 THEN <<>> ELSE prev.heap[prev.Hashes[k]]],
     Index |-> prev.Index]

\* C22: a proof returned by GenerateProof or GenerateProofByIndex keeps
\* its Index and the digest bytes of its Hashes after any later UpdateLeaf
\* or RemoveLeaf on the tree that issued it.
C22_ProofSnapshot ==
    prev # NoPrev => HeldProof = prev.issued

\* after the proof was issued a call gave one of the proof's sibling nodes
\* a digest other than the one the proof holds
C22_Witness ==
    /\ prev # NoPrev
    /\ prev.later >= 1
    /\ \E k \in 1..Len(prev.Hashes) :
          /\ prev.Hashes[k] # 0
          /\ prev.at[prev.Hashes[k]] # prev.Hashes[k]
          /\ prev.heap[prev.at[prev.Hashes[k]]] # prev.issued.Hashes[k]

\* the slots worker w has written so far
Written(w) == { j \in 0..(Len(values) - 1) : group[w].start <= j /\ j < group[w].j }

\* C23: for every item count n >= 1 and every CPU count >= 1 the ranges
\* [start, end) of the workers are contiguous, pairwise disjoint and cover
\* 0..n-1 exactly, the last range taking the remainder of the division;
\* hence in every interleaving every slot is written exactly once and no
\* two workers write the same slot.
C23_BatchPartition ==
    /\ [](pc = "hashing" =>
            /\ Len(values) >= 1 /\ numCPU >= 1
            /\ \A w \in 1..Len(group) :
                  /\ group[w].start = (IF w = 1 THEN 0 ELSE group[w - 1].end)
                  /\ group[w].end - group[w].start =
                         (Len(values) \div numWorkers)
                         + (IF w = numWorkers THEN Len(values) % numWorkers ELSE 0)
                  /\ w = numWorkers => group[w].end = Len(values)
            /\ \A w1, w2 \in 1..Len(group) :
                  w1 # w2 => Written(w1) \cap Written(w2) = {}
            /\ \A j \in 0..(Len(values) - 1) :
                  preHashedLeaves[j + 1] # <<>> <=> \E w \in 1..Len(group) : j \in Written(w))
    /\ [][(pc = "hashing" /\ preHashedLeaves' # preHashedLeaves) =>
            \/ pc' # "hashing"
            \/ \E j \in 1..Len(values) :
                  /\ preHashedLeaves[j] = <<>>
                  /\ preHashedLeaves'[j] # <<>>
                  /\ \A k \in (1..Len(values)) \ { j } :
                         preHashedLeaves'[k] = preHashedLeaves[k]]_vars
    /\ [][(pc = "hashing" /\ pc' = "ready") =>
            \A j \in 0..(Len(values) - 1) :
                \E w \in 1..Len(group) :
                    /\ j \in Written(w)
                    /\ \A w2 \in (1..Len(group)) \ { w } : j \notin Written(w2)]_vars

\* several workers have finished batches of an item count their number
\* does not divide, the last batch being longer than the others
C23_Witness ==
    /\ pc = "hashing"
    /\ Len(group) = numWorkers
    /\ numWorkers >= 2
    /\ Len(values) % numWorkers # 0
    /\ \A w \in 1..Len(group) : group[w].at = "done"
    /\ group[numWorkers].end - group[numWorkers].start > group[1].end - group[1].start

\* C24: in every execution of NewTree no tree node exists and no leaf
\* digest is read by buildTree while a hashing worker is still to be
\* started or has not finished its whole batch; the step that builds the
\* tree is taken only when every worker has written all its slots.
C24_JoinBarrier ==
    /\ [](pc = "hashing" => (nodes = <<>> /\ Leaves = <<>> /\ Root = 0))
    /\ [][(pc = "hashing" /\ nodes' # nodes) =>
            /\ Len(group) = Min(numCPU, Len(values))
            /\ \A w \in 1..Len(group) :
                  group[w].at = "done" /\ group[w].j = group[w].end
            /\ \A j \in 1..Len(values) : preHashedLeaves[j] # <<>>
            /\ \A j \in 1..Len(values) : nodes'[Leaves'[j]].Hash = preHashedLeaves[j]]_vars

\* one worker has finished its batch, another has not, and no tree node
\* exists yet
C24_Witness ==
    /\ pc = "hashing"
    /\ nodes = <<>>
    /\ \E w1, w2 \in 1..Len(group) :
          /\ group[w1].at = "done"
          /\ group[w2].at # "done"
          /\ group[w2].j < group[w2].end

\* the nodes under node x by the child links, x included
RECURSIVE Below(_, _)
Below(ns, x) ==
    IF x = 0 THEN {}
    ELSE { x } \cup Below(ns, ns[x].Left) \cup Below(ns, ns[x].Right)

\* C25: a successful RemoveLeaf(i) shortens Leaves by exactly one, keeps
\* the remaining leaves in their previous order (the leaf formerly at i+1
\* is now at i), and leaves the removed leaf unreachable from Root through
\* the child links.
C25_RemoveLeaf ==
    [][(pc = "ready" /\ ret'.op = "RemoveLeaf" /\ ret'.ok) =>
          LET i == ret'.index
              removed == Leaves[i + 1]
          IN  /\ Len(Leaves') = Len(Leaves) - 1
              /\ \A k \in 0..(Len(Leaves') - 1) :
                    Leaves'[k + 1] = (IF k < i THEN Leaves[k + 1] ELSE Leaves[k + 2])
              /\ removed \notin Below(nodes', Root')
              /\ \A k \in 1..Len(Leaves') : Leaves'[k] # removed]_vars

\* RemoveLeaf succeeded on a leaf that had later leaves, which moved down
C25_Witness ==
    /\ pc = "ready"
    /\ ret.op = "RemoveLeaf"
    /\ ret.ok
    /\ ret.index >= 0
    /\ ret.index < Len(Leaves)
    /\ Root # 0

\* C26: on a tree built from items x0..xn-1, after UpdateLeaf(i, v) for a
\* valid i, and after any further UpdateLeaf calls, the root digest equals
\* the root digest of a build over the item sequence with the updated
\* items replaced by their new values.
C26_UpdateEqualsRebuild ==
    pc = "ready" =>
        /\ RootHash(Tree) =
               RefRoot([i \in 1..Len(Leaves) |-> Sum(LeafValues(Tree)[i])])
        /\ (ret.op = "UpdateLeaf" /\ ret.ok) => LeafValue(ret.index) = ret.value

\* UpdateLeaf succeeded on a leaf two levels below the root, in a tree
\* that holds a non-empty item at another position
C26_Witness ==
    /\ pc = "ready"
    /\ ret.op = "UpdateLeaf"
    /\ ret.ok
    /\ Len(Leaves) >= 3
    /\ nodes[Leaves[ret.index + 1]].Parent # 0
    /\ nodes[nodes[Leaves[ret.index + 1]].Parent].Parent # 0
    /\ \E i \in LeafIndexes : i # ret.index /\ LeafValue(i) # <<>>

\* C27: after any sequence of NewTree, UpdateLeaf and RemoveLeaf, every
\* child x of a node p reachable from Root has x.Parent = p, Root is the
\* only reachable node without a parent, and no node in Leaves has a child.
C27_LinkConsistency ==
    pc = "ready" =>
        /\ \A p \in Below(nodes, Root) :
              /\ nodes[p].Left # 0 => nodes[nodes[p].Left].Parent = p
              /\ nodes[p].Right # 0 => nodes[nodes[p].Right].Parent = p
              /\ nodes[p].Parent = 0 <=> p = Root
        /\ \A i \in 1..Len(Leaves) :
              nodes[Leaves[i]].Left = 0 /\ nodes[Leaves[i]].Right = 0

\* RemoveLeaf succeeded and left a tree of two levels of parents
C27_Witness ==
    /\ pc = "ready"
    /\ ret.op = "RemoveLeaf"
    /\ ret.ok
    /\ Len(Leaves) >= 2
    /\ \E p \in Below(nodes, Root) :
          /\ p # Root
          /\ nodes[p].Left # 0 \/ nodes[p].Right # 0

\* what combineHashes returned for left and right, but for the order of
\* the two
CombineResult ==
    LET left == ret.proof.Hashes[1]
        right == ret.proof.Hashes[2]
    IN  /\ left = <<>> => ret.value = right
        /\ right = <<>> => ret.value = left
        /\ (left # <<>> /\ right # <<>>) => ret.value = Sum(left \o right)
        /\ \A h \in Accumulators : combineHashes(left, right, h).hash = ret.value

\* C28 (as stated): combineHashes(left, right) returns right unchanged
\* when left is empty, left unchanged when right is empty, and otherwise
\* the digest of left followed by right, so that for distinct non-empty a
\* and b the result for (a, b) differs from the result for (b, a); the
\* result does not depend on what the accumulator held before the call.
C28_CombineHashesAnyBytes ==
    pc = "combined" =>
        LET left == ret.proof.Hashes[1]
            right == ret.proof.Hashes[2]
        IN  /\ CombineResult
            /\ (left # <<>> /\ right # <<>> /\ left # right) =>
                   \A h \in Accumulators : ret.value # combineHashes(right, left, h).hash

\* C28 (amended): as stated, the results for (a, b) and (b, a) differing
\* for distinct non-empty a and b of the same length, as two digests are.
C28_CombineHashes ==
    pc = "combined" =>
        LET left == ret.proof.Hashes[1]
            right == ret.proof.Hashes[2]
        IN  /\ CombineResult
            /\ (left # <<>> /\ right # <<>> /\ left # right /\ Len(left) = Len(right)) =>
                   \A h \in Accumulators : ret.value # combineHashes(right, left, h).hash

\* combineHashes returned for two distinct non-empty byte strings of the
\* same length, called with an accumulator that held bytes of an earlier use
C28_Witness ==
    /\ pc = "combined"
    /\ ret.proof.Hashes[1] # <<>>
    /\ ret.proof.Hashes[2] # <<>>
    /\ ret.proof.Hashes[1] # ret.proof.Hashes[2]
    /\ Len(ret.proof.Hashes[1]) = Len(ret.proof.Hashes[2])
    /\ ret.out.Hashes[1] # <<>>

\* the tree NewTree builds from the items vals
BuiltFrom(vals) ==
    LET leafNodes == LeafNodes([i \in 1..Len(vals) |-> Sum(vals[i])], vals)
        ids == [i \in 1..Len(vals) |-> i]
        built == buildTree([nodes |-> leafNodes, HashFunc |-> newHashFunc], ids)
    IN  [nodes |-> built.nodes, Root |-> built.root, Leaves |-> ids,
         HashFunc |-> built.HashFunc]

\* the item sequences of the length of xs that differ from xs at Go index k
DifferingAt(xs, k) ==
    { ys \in [1..Len(xs) -> Values] : ys[k + 1] # xs[k + 1] }

\* C29: for two trees built from item sequences of the same length n >= 3
\* that differ in the value of some leaf k, after the same successful
\* RemoveLeaf(j) with j # k on both, the two root digests differ.
C29_RootBindsAfterRemoval ==
    (pc = "ready" /\ fresh /\ Len(Leaves) >= 3) =>
        \A k, j \in LeafIndexes :
            j # k =>
                \A ys \in DifferingAt(LeafValues(Tree), k) :
                    LET r1 == RemoveLeaf(Tree, j)
                        r2 == RemoveLeaf(BuiltFrom(ys), j)
                    IN  /\ r1.err = NoErr /\ r2.err = NoErr
                        /\ RootHash(r1.t) # RootHash(r2.t)

\* C30: two VerifyProof calls running at the same time on one unmodified
\* tree each return the result they return when run alone, in every
\* interleaving of their steps (reset, write, sum) on the tree's HashFunc.
C30_ConcurrentVerify ==
    pc = "verifying" =>
        \A w \in 1..Len(group) :
            group[w].at = "done" =>
                LET alone == VerifyProof(Tree, group[w].proof, group[w].value)
                IN  group[w].ok = alone.ok /\ group[w].err = alone.err

====
